---- MODULE Spec2Model ----
(***************************************************************************)
(* State-machine model of the UAT authentication handshake of the Scout   *)
(* wizard: authenticateWithUat, fetchWithRetry and postForm of             *)
(* wizard/src/lib/setup.ts.  One action per resumption of the async       *)
(* function: every action runs the code from one await to the next.       *)
(* Time is in milliseconds, as in the source.                              *)
(***************************************************************************)
EXTENDS Integers, Sequences, FiniteSets

\* ------------------------------------------------------------------ bounds
\* longest orgs list a list-accounts response carries
MaxOrgs == 2
\* a network call or a prompt answers at once or after MaxLatency seconds
MaxLatency == 2

\* ------------------------------------------------------- program constants
\* a fetchWithRetry without a retry, and one with two retries
OneTry == 2 - 1
ThreeTries == 2 + 1
tries == 2
delayMs == 1000
timeoutMs == 300 * 1000
\* a polling loop whose sleep does not let any time pass
NoSleepMs == 5000 - 5000
\* a polling sleep of twice the length
LongSleepMs == 5000 + 5000
pollSleepMs == 5000
\* the time of the run at which a caller calls authenticateWithUat again
ReinvokeAt == 400 * 1000

\* ------------------------------------------------------------ value domains
Absent == "<absent>"
NaN == 0 - 1
AuthTypes == {"sign_in", "sign_up"}
Latencies == {0, MaxLatency * 1000}
OrgIds == {7, 12}
OrgName(id) == IF id = 7 THEN "Acme" ELSE "Beta"
Orgs == {[id |-> d, name |-> OrgName(d)] : d \in OrgIds}
OrgLists == UNION {[1..n -> Orgs] : n \in 0..MaxOrgs}

None == [kind |-> "none"]
Null == [kind |-> "null"]

\* ------------------------------------------------------------ pure helpers
getBaseUrl == "https://scoutapm.com"

Sha256(v) == <<"sha256", v>>
Base64Url(x) == <<"b64url", x>>

\* randomBytes(32): random values are opaque, only their equality matters; the
\* source is taken never to repeat a value (32 random bytes), so a draw is
\* the next value not drawn before in this run
RandomBytes(used) == {Cardinality(used) + 1}

\* a pair whose challenge is the verifier itself, not its digest
createVerifierAndChallengeUnhashed(r) == [verifier |-> <<"hex", r>>, challenge |-> <<"hex", r>>]
createVerifierAndChallenge(r) == [verifier |-> <<"hex", r>>, challenge |-> Sha256(<<"hex", r>>)]

Digits == <<"0", "1", "2", "3", "4", "5", "6", "7", "8", "9">>

RECURSIVE NatToString(_)
NatToString(n) == IF n < 10 THEN <<Digits[n + 1]>> ELSE NatToString(n \div 10) \o <<Digits[(n % 10) + 1]>>

\* Number.prototype.toString for the integers of the model
toString(n) == IF n = NaN THEN <<"N", "a", "N">> ELSE NatToString(n)

DigitValue(c) == IF \E d \in 1..10 : Digits[d] = c THEN (CHOOSE d \in 1..10 : Digits[d] = c) - 1 ELSE NaN

RECURSIVE ParseDigits(_, _, _)
ParseDigits(s, k, acc) ==
  IF k > Len(s) \/ DigitValue(s[k]) = NaN
  THEN (IF k = 1 THEN NaN ELSE acc)
  ELSE ParseDigits(s, k + 1, acc * 10 + DigitValue(s[k]))

\* a parse that stops after the first digit
ParseIntFirstDigit(s) == IF Len(s) = 0 THEN NaN ELSE DigitValue(s[1])
\* parseInt: the longest run of leading decimal digits, NaN when there is none
ParseInt(s) == ParseDigits(s, 1, 0)

\* a check that takes every status from 200 up as a success
RespOkNoUpperBound(status) == status >= 200
\* Response.ok
RespOk(status) == status >= 200 /\ status <= 299

\* an authentication URL with a query string after the challenge
authUrlWithQuery(base, authType, challengeB64) == <<base, "/uat/auth/", authType, "/", challengeB64, "?utm_source=scout_wizard">>
authUrl(base, authType, challengeB64) == <<base, "/uat/auth/", authType, "/", challengeB64>>
checkUrl(base, challengeB64) == <<base, "/uat/auth/check/", challengeB64>>
orgsUrl(base) == <<base, "/uat/get_orgs">>
keysUrl(base) == <<base, "/uat/get_keys">>

\* options built in the reverse of the response's order
SelectOptionsReversed(orgs) == [k \in 1..Len(orgs) |-> [value |-> toString(orgs[Len(orgs) + 1 - k].id), label |-> orgs[Len(orgs) + 1 - k].name]]
\* orgsData.orgs.map(org => ({ value: org.id.toString(), label: org.name }))
SelectOptions(orgs) == [k \in 1..Len(orgs) |-> [value |-> toString(orgs[k].id), label |-> orgs[k].name]]

\* --------------------------------------------------------- response domains
Statuses == {200, 500}
InvalidCheck == [valid |-> FALSE, has_authenticated |-> Absent]
InvalidOrgs == [valid |-> FALSE, hasOrgs |-> FALSE, orgs |-> <<>>]
InvalidKeys == [valid |-> FALSE, org_key |-> Absent, api_key |-> Absent]
CheckBodies == {InvalidCheck}
                 \cup {[valid |-> TRUE, has_authenticated |-> h] : h \in {Absent, "false", "true"}}
OrgsBodies == {InvalidOrgs, [valid |-> TRUE, hasOrgs |-> FALSE, orgs |-> <<>>]}
                \cup {[valid |-> TRUE, hasOrgs |-> TRUE, orgs |-> l] : l \in OrgLists}
KeysBodies == {InvalidKeys}
                \cup {[valid |-> TRUE, org_key |-> o, api_key |-> a] : o \in {Absent, "", "ok1"}, a \in {Absent, "", "ak1"}}

\* the responses the server can give: every body with a 2xx status; with an
\* error status a text body and, for each call, one well-formed success body
CheckResponses == [status : Statuses, body : CheckBodies]
OrgsResponses == [status : {200}, body : OrgsBodies]
                   \cup [status : {500}, body : {InvalidOrgs, [valid |-> TRUE, hasOrgs |-> TRUE, orgs |-> <<[id |-> 7, name |-> OrgName(7)]>>]}]
KeysResponses == [status : {200}, body : KeysBodies]
                   \cup [status : {500}, body : {InvalidKeys, [valid |-> TRUE, org_key |-> "ok1", api_key |-> "ak1"]}]

\* --------------------------------------------------------------- requests
\* postForm: every form value goes through value.toString(); org_id is the
\* one number among the form values, the tokens are strings already
FormValue(k, v) == IF k = "org_id" THEN toString(v) ELSE v
postForm(kind, url, data) == [kind |-> kind, method |-> "POST", url |-> url, form |-> [k \in DOMAIN data |-> FormValue(k, data[k])]]
getRequest(kind, url) == [kind |-> kind, method |-> "GET", url |-> url, form |-> <<>>]

CheckRequest(pair) == getRequest("check", checkUrl(getBaseUrl, Base64Url(pair.challenge)))
\* a get_orgs form that publishes the challenge of the verifier it redeems
OrgsRequestSamePair(p1, p2) == postForm("orgs", orgsUrl(getBaseUrl), [verify_token |-> Base64Url(p1.verifier), challenge_token |-> Base64Url(p1.challenge)])
\* a get_orgs form that sends the new verifier instead of redeeming the first
OrgsRequestKeepsFirst(p1, p2) == postForm("orgs", orgsUrl(getBaseUrl), [verify_token |-> Base64Url(p2.verifier), challenge_token |-> Base64Url(p2.challenge)])
OrgsRequest(p1, p2) == postForm("orgs", orgsUrl(getBaseUrl), [verify_token |-> Base64Url(p1.verifier), challenge_token |-> Base64Url(p2.challenge)])
KeysRequest(p2, orgId) == postForm("keys", keysUrl(getBaseUrl), [verify_token |-> Base64Url(p2.verifier), org_id |-> orgId])

\* a top-level catch that rethrows instead of returning
OuterCatchRethrows == [kind |-> "thrown"]
\* the top-level catch of authenticateWithUat: log and return null
OuterCatch == Null

\* a polling catch that rethrows without touching the spinner
InnerCatchSilent(sp) == sp
\* the catch of the polling loop: spinner.fail('Authentication failed'), then
\* the error is thrown again
InnerCatch(sp) == Append(sp, "fail: Authentication failed")

\* ------------------------------------------------------- setup() helpers
\* the command setupClaudeCode builds around the key
ClaudeCommand(agentKey) == <<"claude mcp add scout-apm -e SCOUT_API_KEY=", agentKey, " -- docker run --rm -i -e SCOUT_API_KEY scoutapp/scout-mcp-local:latest">>
\* mcpConfig(agentKey): the server entry with the key in its environment
mcpConfig(agentKey) == [command |-> "docker", image |-> "scoutapp/scout-mcp-local:latest", env |-> [SCOUT_API_KEY |-> agentKey]]
\* generateCursorDeeplink(agentKey)
generateCursorDeeplink(agentKey) == <<"https://cursor.com/en/install-mcp?name=scout-apm&config=", <<"uri", <<"base64", <<"json", [command |-> "docker", env |-> [SCOUT_API_KEY |-> agentKey]]>>>>>>>>
settingsUrl(base) == <<base, "/settings">>
\* what the user can type at the API key prompt
ManualKeys == {"", "manual-key"}
Assistants == {"cursor", "claude-code", "claude-desktop", "manual"}

\* ------------------------------------------------------- isRailsProject
\* join(path, name) of node:path for the paths of the model, which are
\* sequences of segments without . and ..
join(path, name) == Append(path, name)
RailsPaths == {<<"app">>, <<"srv", "app">>}
RailsFiles == {join(p, n) : p \in RailsPaths, n \in {"Gemfile", "config"}}
\* existsSync of each file: it exists, it does not, or the check throws
FileSystems == [RailsFiles -> {"yes", "no", "throws"}]
existsSync(fs, p) == fs[p]

\* a check that is content with one of the two
isRailsProjectEither(path, fs) ==
  LET hasGemfile == existsSync(fs, join(path, "Gemfile"))
      hasConfigDir == existsSync(fs, join(path, "config"))
  IN IF hasGemfile = "throws" \/ hasConfigDir = "throws"
     THEN [kind |-> "returned", value |-> FALSE]
     ELSE [kind |-> "returned", value |-> (hasGemfile = "yes" \/ hasConfigDir = "yes")]
\* isRailsProject: both existsSync calls are made inside the try, the catch
\* returns false
isRailsProject(path, fs) ==
  LET hasGemfile == existsSync(fs, join(path, "Gemfile"))
      hasConfigDir == existsSync(fs, join(path, "config"))
  IN IF hasGemfile = "throws" \/ hasConfigDir = "throws"
     THEN [kind |-> "returned", value |-> FALSE]
     ELSE [kind |-> "returned", value |-> (hasGemfile = "yes" /\ hasConfigDir = "yes")]

\* ------------------------------------------------------- setupRails
\* what a clack prompt resolves with when the user cancels it (a symbol)
CancelSymbol == "Symbol(clack:cancel)"
\* the answers of clack.confirm, and JavaScript truthiness of one
Confirms == {"true", "false", CancelSymbol}
TruthyAnswer(ans) == ans # "false"
\* the one directory of the model that exists, and the working directory
ProjectDir == <<"srv", "app">>
Cwd == <<"srv">>
\* what the user can type at the path prompt: absolute or relative text
PathTexts == {[abs |-> TRUE, segs |-> <<"srv", "app">>], [abs |-> FALSE, segs |-> <<"app">>],
              [abs |-> TRUE, segs |-> <<"app">>], [abs |-> FALSE, segs |-> <<CancelSymbol>>]}
\* resolve(text) of node:path: a relative path is taken from the cwd
resolve(text) == IF text.abs THEN text.segs ELSE Cwd \o text.segs
ymlPath(configDir) == join(configDir, "scout_apm.yml")
wizardYmlPath(configDir) == join(configDir, "scout_apm.wizard.yml")
ConfigFiles == {ymlPath(join(ProjectDir, "config")), wizardYmlPath(join(ProjectDir, "config"))}
\* no path given, and the content of a file that does not exist
NoPath == <<>>
NoContent == <<>>
OldContent == <<"an earlier configuration">>
Template == <<"common: &defaults", "  key: ", "{{SCOUT_KEY}}", "  monitor: true">>
\* template.replace('{{SCOUT_KEY}}', orgKey): the first occurrence only
ReplaceFirst(t, what, with) ==
  IF \E n \in DOMAIN t : t[n] = what
  THEN LET n == CHOOSE m \in DOMAIN t : t[m] = what /\ \A l \in 1..(m - 1) : t[l] # what
       IN [t EXCEPT ![n] = with]
  ELSE t
\* what the existing-file prompt can resolve with
ExistingAnswers == {"new", "overwrite", "cancel", CancelSymbol}
WriteOutcomes == {"ok", "readThrows", "writeThrows"}

\* the file system as isRailsProject sees it
DiskView(r) ==
  [f \in RailsFiles |->
     IF f = join(ProjectDir, "Gemfile") THEN (IF r.gemfile THEN "yes" ELSE "no")
     ELSE IF f = join(ProjectDir, "config") THEN (IF r.config THEN "yes" ELSE "no")
     ELSE "no"]

\* validateProjectPath(path)
validateProjectPath(r, path) ==
  IF path # ProjectDir \/ r.root = "missing" THEN [valid |-> FALSE, error |-> "Path does not exist"]
  ELSE IF r.root = "readonly" THEN [valid |-> FALSE, error |-> "Path is not writable"]
  ELSE [valid |-> TRUE, error |-> Absent]

\* the try block at the end of setupRails: read the template, replace the
\* placeholder, write configPath; any throw is logged and rethrown
WriteConfig(r, configPath, wr) ==
  IF wr = "ok"
  THEN [r EXCEPT !.pc = "returned",
                 !.files[configPath] = ReplaceFirst(Template, "{{SCOUT_KEY}}", r.orgKey),
                 !.writes = Append(@, configPath)]
  ELSE [r EXCEPT !.pc = "rejected"]

\* from "Check if config file already exists" to the next await or the end
CheckExisting(r, wr) ==
  LET configPath == ymlPath(join(r.projectPath, "config"))
  IN IF r.files[configPath] # NoContent
     THEN [r EXCEPT !.pc = "selectExisting", !.prompts = Append(@, "What would you like to do?")]
     ELSE WriteConfig(r, configPath, wr)

\* "Ensure config directory exists": mkdirSync succeeds (mk) or throws
EnsureConfigDir(r, mk, wr) ==
  IF ~r.config
  THEN IF mk THEN CheckExisting([r EXCEPT !.config = TRUE, !.made = Append(@, join(r.projectPath, "config"))], wr)
       ELSE [r EXCEPT !.pc = "returned"]
  ELSE CheckExisting(r, wr)

\* from the validation of projectPath to the next await or the end
AfterPath(r, path, mk, wr) ==
  LET q == [r EXCEPT !.projectPath = path]
  IN IF ~validateProjectPath(q, path).valid THEN [q EXCEPT !.pc = "returned"]
     ELSE IF ~isRailsProject(path, DiskView(q)).value
     THEN [q EXCEPT !.pc = "confirmProceed", !.prompts = Append(@, "Continue anyway?")]
     ELSE EnsureConfigDir(q, mk, wr)

\* a guard that forgets the length test
NoOrganizationsMissingOnly(body) == ~body.hasOrgs
\* !orgsData.orgs || orgsData.orgs.length === 0
NoOrganizations(body) == ~body.hasOrgs \/ Len(body.orgs) = 0

\* a guard that never selects automatically
SingleOrgNever(orgs) == Len(orgs) = 0
\* orgsData.orgs.length === 1: the organisation is selected without a prompt
SingleOrg(orgs) == Len(orgs) = 1

\* a truthiness test that only rejects undefined
TruthyDefined(v) == v # Absent
\* JavaScript truthiness of a string field (undefined and "" are falsy)
Truthy(v) == v \notin {Absent, ""}

\* a fallback test that only looks at the returned object
NoAgentKeyIgnoringKey(keys) == keys.kind # "keys"
\* agentKey = keys ? keys.api_key : null, then !agentKey
NoAgentKey(keys) == keys.kind # "keys" \/ ~Truthy(keys.api_key)

\* a result with the two keys exchanged
CredentialSwapped(body) == [kind |-> "keys", org_key |-> body.api_key, api_key |-> body.org_key]
\* return keysData
Credential(body) == [kind |-> "keys", org_key |-> body.org_key, api_key |-> body.api_key]

\* pc            where the async function is suspended
\* now, startTime  Date.now() and the startTime local
\* first, second   the two verifier/challenge pairs; drawn: random values used
\* call, i, request  the fetchWithRetry call in progress and its loop index
\* opened, posts, prompts, spinner, notice
\*               what the collaborators were handed, in order: URLs opened,
\*               POST requests put on the wire (retries included), prompts
\*               shown, spinner calls, the organisation name printed
\* lastReq, lastResp  the last request sent and the last response received
\*               (nposts: the length of posts when it arrived)
\* sawConfirm    some status check body carried has_authenticated = true
\* checkTook     time taken so far by the status check in progress, or by
\*               the last one while the loop sleeps and after it ended
\* lastAwait     the await that settled last and how it settled
\* prior         the pairs an earlier, failed call of authenticateWithUat in
\*               this process had generated (NoPrior during the first call)
\* wizard        setup(): where it is suspended, its agentKey, the prompts it
\*               showed, the URLs it opened and what it handed to the assistant
\* rails         a call of isRailsProject: its path, the file system it runs
\*               on and what it returned
VARIABLES pc, authType, now, startTime, first, second, call, i, request,
          authenticated, spinner, opened, posts, lastReq, lastResp, sawConfirm,
          orgsData, prompts, selectedOrgId, notice, result, drawn, checkTook, lastAwait,
          prior, wizard, rails

vars == <<pc, authType, now, startTime, first, second, call, i, request,
          authenticated, spinner, opened, posts, lastReq, lastResp, sawConfirm,
          orgsData, prompts, selectedOrgId, notice, result, drawn, checkTook, lastAwait,
          prior, wizard, rails>>

\* the state of the callers of authenticateWithUat and of the Rails check
callerVars == <<prior, wizard, rails>>

\* the locals of authenticateWithUat, the clock, the random source and the
\* records of what the call did
authVars == <<pc, authType, now, startTime, first, second, call, i, request,
              authenticated, spinner, opened, posts, lastReq, lastResp, sawConfirm,
              orgsData, prompts, selectedOrgId, notice, result, drawn, checkTook, lastAwait>>

NoPair == [verifier |-> <<>>, challenge |-> <<>>]
NoReq == [kind |-> "none"]
NoResp == [call |-> "none", status |-> 0, nposts |-> 0]
\* the settlement of an await: what was awaited, how it settled and, for the
\* prompt, the position of the option the user picked
\* no earlier call, no setup() and no isRailsProject call in this run
NoPrior == [first |-> NoPair, second |-> NoPair]
NoWizard == [pc |-> "none"]
NoRails == [pc |-> "none"]
Settled(on, outcome) == [on |-> on, outcome |-> outcome, option |-> 0]
Picked(k) == [on |-> "select", outcome |-> "resolved", option |-> k]

\* the locals of authenticateWithUat before its first statement, and the
\* records of what it did
AuthInit ==
  /\ pc = "idle"
  /\ authType \in AuthTypes
  /\ now = 0
  /\ startTime = 0
  /\ first = NoPair
  /\ second = NoPair
  /\ call = "none"
  /\ i = 0
  /\ request = NoReq
  /\ authenticated = FALSE
  /\ spinner = <<>>
  /\ opened = <<>>
  /\ posts = <<>>
  /\ lastReq = NoReq
  /\ lastResp = NoResp
  /\ sawConfirm = FALSE
  /\ orgsData = <<>>
  /\ prompts = <<>>
  /\ selectedOrgId = NaN
  /\ notice = Absent
  /\ result = None
  /\ drawn = {}
  /\ checkTook = 0
  /\ lastAwait = Settled("none", "none")

\* authenticateWithUat is called once, by a caller that only takes its result
Init ==
  /\ AuthInit
  /\ prior = NoPrior
  /\ wizard = NoWizard
  /\ rails = NoRails

\* ------------------------------------------------------------ sub-steps
\* one fetch(url, opts) put on the wire
Transmit(req) ==
  /\ lastReq' = req
  /\ posts' = IF req.method = "POST" THEN Append(posts, req) ELSE posts

\* entry of fetchWithRetry: i = 0 and the first fetch is issued
fetchWithRetry(req) ==
  /\ pc' = "fetching"
  /\ call' = req.kind
  /\ i' = 0
  /\ request' = req
  /\ checkTook' = 0
  /\ Transmit(req)

\* a throw that reaches the top-level catch
Throw ==
  /\ pc' = "done"
  /\ result' = OuterCatch

\* a loop condition that still admits the instant of the deadline
WhileHeadInclusive(t, s, sp, pair) ==
  IF t - s <= timeoutMs
  THEN /\ fetchWithRetry(CheckRequest(pair))
       /\ spinner' = sp
       /\ result' = result
  ELSE /\ spinner' = Append(sp, "fail: Authentication timed out after 5 minutes")
       /\ Throw
       /\ UNCHANGED <<call, i, request, posts, lastReq, checkTook>>

\* a loop whose exit is not followed by the !authenticated test
WhileHeadFallsThrough(t, s, sp, pair) ==
  IF t - s < timeoutMs
  THEN /\ fetchWithRetry(CheckRequest(pair))
       /\ spinner' = sp
       /\ result' = result
  ELSE /\ fetchWithRetry(OrgsRequest(pair, second))
       /\ spinner' = sp
       /\ result' = result

\* while (Date.now() - startTime < timeoutMs) evaluated at time t, and the
\* code after the loop when the condition is false
WhileHead(t, s, sp, pair) ==
  IF t - s < timeoutMs
  THEN /\ fetchWithRetry(CheckRequest(pair))
       /\ spinner' = sp
       /\ result' = result
  ELSE /\ spinner' = Append(sp, "fail: Authentication timed out after 5 minutes")
       /\ Throw
       /\ UNCHANGED <<call, i, request, posts, lastReq, checkTook>>

\* step 5: post the get_keys form for the selected organisation
GetKeys(orgId) ==
  /\ selectedOrgId' = orgId
  /\ notice' = orgsData'[1].name
  /\ fetchWithRetry(KeysRequest(second, orgId))

\* --------------------------------------------------------------- actions
\* authenticateWithUat(a) from its first statement to await openUrl(authUrl)
Enter(a) ==
  /\ authType' = a
  /\ \E r \in RandomBytes(drawn) :
       /\ first' = createVerifierAndChallenge(r)
       /\ drawn' = drawn \cup {r}
  /\ opened' = Append(opened, authUrl(getBaseUrl, a, Base64Url(first'.challenge)))
  /\ pc' = "opening"
  /\ lastAwait' = lastAwait
  /\ UNCHANGED <<now, startTime, second, call, i, request, authenticated, spinner,
                 posts, lastReq, lastResp, sawConfirm, orgsData, prompts, selectedOrgId, notice, result, checkTook>>

\* the call of authenticateWithUat by a caller that only takes its result
Start ==
  /\ pc = "idle"
  /\ wizard = NoWizard
  /\ rails = NoRails
  /\ Enter(authType)
  /\ UNCHANGED callerVars

\* a second call that goes on with the pair of the failed one
ReinvokeResuming(a) ==
  /\ pc = "done"
  /\ result = Null
  /\ prior = NoPrior
  /\ now <= ReinvokeAt
  /\ prior' = [first |-> first, second |-> second]
  /\ now' = ReinvokeAt
  /\ authType' = a
  /\ opened' = <<authUrl(getBaseUrl, a, Base64Url(first.challenge))>>
  /\ pc' = "opening"
  /\ second' = NoPair
  /\ startTime' = 0
  /\ call' = "none"
  /\ i' = 0
  /\ request' = NoReq
  /\ authenticated' = FALSE
  /\ spinner' = <<>>
  /\ posts' = <<>>
  /\ lastReq' = NoReq
  /\ lastResp' = NoResp
  /\ sawConfirm' = FALSE
  /\ orgsData' = <<>>
  /\ prompts' = <<>>
  /\ selectedOrgId' = NaN
  /\ notice' = Absent
  /\ result' = None
  /\ checkTook' = 0
  /\ lastAwait' = Settled("none", "none")
  /\ UNCHANGED <<first, drawn, wizard, rails>>

\* authenticateWithUat(a) is called again, ReinvokeAt ms into the run, after
\* a call that returned null: every local is new, the module keeps no state,
\* the clock and the random source go on; what the collaborators were
\* handed is recorded per call
Reinvoke(a) ==
  /\ pc = "done"
  /\ result = Null
  /\ prior = NoPrior
  /\ now <= ReinvokeAt
  /\ prior' = [first |-> first, second |-> second]
  /\ now' = ReinvokeAt
  /\ authType' = a
  /\ \E r \in RandomBytes(drawn) :
       /\ first' = createVerifierAndChallenge(r)
       /\ drawn' = drawn \cup {r}
  /\ opened' = <<authUrl(getBaseUrl, a, Base64Url(first'.challenge))>>
  /\ pc' = "opening"
  /\ second' = NoPair
  /\ startTime' = 0
  /\ call' = "none"
  /\ i' = 0
  /\ request' = NoReq
  /\ authenticated' = FALSE
  /\ spinner' = <<>>
  /\ posts' = <<>>
  /\ lastReq' = NoReq
  /\ lastResp' = NoResp
  /\ sawConfirm' = FALSE
  /\ orgsData' = <<>>
  /\ prompts' = <<>>
  /\ selectedOrgId' = NaN
  /\ notice' = Absent
  /\ result' = None
  /\ checkTook' = 0
  /\ lastAwait' = Settled("none", "none")
  /\ UNCHANGED <<wizard, rails>>

\* openUrl resolves: start the spinner and enter the polling loop
OpenUrlResolves ==
  /\ pc = "opening"
  /\ startTime' = now
  /\ authenticated' = FALSE
  /\ WhileHead(now, now, <<"start">>, first)
  /\ lastAwait' = Settled("openUrl", "resolved")
  /\ UNCHANGED callerVars
  /\ UNCHANGED <<authType, now, first, second, opened, lastResp, sawConfirm, orgsData, prompts,
                 selectedOrgId, notice, drawn>>

\* openUrl rejects: the rejection is thrown inside the outer try
OpenUrlRejects ==
  /\ pc = "opening"
  /\ Throw
  /\ lastAwait' = Settled("openUrl", "rejected")
  /\ UNCHANGED callerVars
  /\ UNCHANGED <<authType, now, startTime, first, second, call, i, request, authenticated, spinner,
                 opened, posts, lastReq, lastResp, sawConfirm, orgsData, prompts, selectedOrgId, notice, drawn, checkTook>>

\* fetch rejects (transport fault): the catch block of fetchWithRetry
FetchRejects(lat) ==
  /\ pc = "fetching"
  /\ now' = now + lat
  /\ checkTook' = IF call = "check" THEN checkTook + lat ELSE checkTook
  /\ IF i < tries - 1
     THEN /\ pc' = "retrySleep"
          /\ UNCHANGED <<spinner, result>>
     ELSE /\ spinner' = IF call = "check" THEN InnerCatch(spinner) ELSE spinner
          /\ Throw
  /\ lastAwait' = Settled("fetch", "rejected")
  /\ UNCHANGED callerVars
  /\ UNCHANGED <<authType, startTime, first, second, call, i, request, authenticated, opened, posts,
                 lastReq, lastResp, sawConfirm, orgsData, prompts, selectedOrgId, notice, drawn>>

\* sleep(delayMs) of fetchWithRetry ends: i++ and the next try
RetrySleepEnds ==
  /\ pc = "retrySleep"
  /\ now' = now + delayMs
  /\ checkTook' = IF call = "check" THEN checkTook + delayMs ELSE checkTook
  /\ i' = i + 1
  /\ IF i' < tries
     THEN /\ pc' = "fetching"
          /\ Transmit(request)
          /\ UNCHANGED <<spinner, result>>
     ELSE /\ spinner' = IF call = "check" THEN InnerCatch(spinner) ELSE spinner
          /\ Throw
          /\ UNCHANGED <<posts, lastReq>>
  /\ lastAwait' = Settled("sleep", "resolved")
  /\ UNCHANGED callerVars
  /\ UNCHANGED <<authType, startTime, first, second, call, request, authenticated, opened,
                 lastResp, sawConfirm, orgsData, prompts, selectedOrgId, notice, drawn>>

\* a status check whose confirmation is refused when it arrives at or after
\* the deadline
CheckRespondsWithinDeadline(lat, resp) ==
  LET status == resp.status
      body == resp.body
  IN
  /\ pc = "fetching"
  /\ call = "check"
  /\ now' = now + lat
  /\ lastResp' = [call |-> "check", status |-> status, nposts |-> Len(posts), body |-> body]
  /\ sawConfirm' = (sawConfirm \/ (body.valid /\ body.has_authenticated = "true"))
  /\ IF RespOk(status) /\ ~body.valid
     THEN /\ spinner' = InnerCatch(spinner)
          /\ Throw
          /\ checkTook' = checkTook + lat
          /\ UNCHANGED <<second, call, i, request, authenticated, posts, lastReq, drawn>>
     ELSE IF RespOk(status) /\ body.has_authenticated = "true" /\ now' - startTime >= timeoutMs
     THEN /\ spinner' = Append(spinner, "fail: Authentication timed out after 5 minutes")
          /\ Throw
          /\ checkTook' = checkTook + lat
          /\ UNCHANGED <<second, call, i, request, authenticated, posts, lastReq, drawn>>
     ELSE IF RespOk(status) /\ body.has_authenticated = "true"
     THEN /\ spinner' = Append(spinner, "succeed: Authentication successful!")
          /\ authenticated' = TRUE
          /\ \E r \in RandomBytes(drawn) :
               /\ second' = createVerifierAndChallenge(r)
               /\ drawn' = drawn \cup {r}
          /\ fetchWithRetry(OrgsRequest(first, second'))
          /\ UNCHANGED result
     ELSE /\ pc' = "pollSleep"
          /\ checkTook' = checkTook + lat
          /\ UNCHANGED <<second, call, i, request, authenticated, spinner, posts, lastReq, result, drawn>>
  /\ lastAwait' = Settled("fetch", "resolved")
  /\ UNCHANGED callerVars
  /\ UNCHANGED <<authType, startTime, first, opened, orgsData, prompts, selectedOrgId, notice>>

\* the status check returns a response
CheckResponds(lat, resp) ==
  LET status == resp.status
      body == resp.body
  IN
  /\ pc = "fetching"
  /\ call = "check"
  /\ now' = now + lat
  /\ lastResp' = [call |-> "check", status |-> status, nposts |-> Len(posts), body |-> body]
  /\ sawConfirm' = (sawConfirm \/ (body.valid /\ body.has_authenticated = "true"))
  /\ IF RespOk(status) /\ ~body.valid
     THEN \* checkResponse.json() throws inside the inner try
          /\ spinner' = InnerCatch(spinner)
          /\ Throw
          /\ checkTook' = checkTook + lat
          /\ UNCHANGED <<second, call, i, request, authenticated, posts, lastReq, drawn>>
     ELSE IF RespOk(status) /\ body.has_authenticated = "true"
     THEN /\ spinner' = Append(spinner, "succeed: Authentication successful!")
          /\ authenticated' = TRUE
          /\ \E r \in RandomBytes(drawn) :
               /\ second' = createVerifierAndChallenge(r)
               /\ drawn' = drawn \cup {r}
          /\ fetchWithRetry(OrgsRequest(first, second'))
          /\ UNCHANGED result
     ELSE /\ pc' = "pollSleep"
          /\ checkTook' = checkTook + lat
          /\ UNCHANGED <<second, call, i, request, authenticated, spinner, posts, lastReq, result, drawn>>
  /\ lastAwait' = Settled("fetch", "resolved")
  /\ UNCHANGED callerVars
  /\ UNCHANGED <<authType, startTime, first, opened, orgsData, prompts, selectedOrgId, notice>>

\* sleep(5000) of the polling loop ends: back to the loop condition
PollSleepEnds ==
  /\ pc = "pollSleep"
  /\ now' = now + pollSleepMs
  /\ WhileHead(now', startTime, spinner, first)
  /\ lastAwait' = Settled("sleep", "resolved")
  /\ UNCHANGED callerVars
  /\ UNCHANGED <<authType, startTime, first, second, authenticated, opened, lastResp, sawConfirm,
                 orgsData, prompts, selectedOrgId, notice, drawn>>

\* the get_orgs post returns a response
OrgsResponds(lat, resp) ==
  LET status == resp.status
      body == resp.body
  IN
  /\ pc = "fetching"
  /\ call = "orgs"
  /\ now' = now + lat
  /\ lastResp' = [call |-> "orgs", status |-> status, nposts |-> Len(posts), body |-> body]
  /\ IF ~RespOk(status) \/ ~body.valid \/ NoOrganizations(body)
     THEN /\ Throw
          /\ UNCHANGED <<call, i, request, posts, lastReq, orgsData, prompts, selectedOrgId, notice, checkTook>>
     ELSE /\ orgsData' = body.orgs
          /\ IF SingleOrg(body.orgs)
             THEN /\ GetKeys(body.orgs[1].id)
                  /\ UNCHANGED <<prompts, result>>
             ELSE /\ prompts' = Append(prompts, [message |-> "Select an organization:", options |-> SelectOptions(body.orgs)])
                  /\ pc' = "selecting"
                  /\ UNCHANGED <<call, i, request, posts, lastReq, selectedOrgId, notice, result, checkTook>>
  /\ lastAwait' = Settled("fetch", "resolved")
  /\ UNCHANGED callerVars
  /\ UNCHANGED <<authType, startTime, first, second, authenticated, spinner, opened, sawConfirm, drawn>>

\* a prompt whose answer is refused once the polling deadline has passed
SelectAnswersWithinDeadline(lat, k) ==
  /\ pc = "selecting"
  /\ k \in 1..Len(prompts[Len(prompts)].options)
  /\ now' = now + lat
  /\ orgsData' = orgsData
  /\ lastAwait' = Picked(k)
  /\ IF now' - startTime < timeoutMs
     THEN /\ GetKeys(ParseInt(prompts[Len(prompts)].options[k].value))
          /\ UNCHANGED <<spinner, result>>
     ELSE /\ spinner' = Append(spinner, "fail: Authentication timed out after 5 minutes")
          /\ Throw
          /\ UNCHANGED <<call, i, request, posts, lastReq, selectedOrgId, notice, checkTook>>
  /\ UNCHANGED callerVars
  /\ UNCHANGED <<authType, startTime, first, second, authenticated, opened, lastResp,
                 sawConfirm, prompts, drawn>>

\* clack.select resolves with the value of one of the options
SelectAnswers(lat, k) ==
  /\ pc = "selecting"
  /\ k \in 1..Len(prompts[Len(prompts)].options)
  /\ now' = now + lat
  /\ orgsData' = orgsData
  /\ GetKeys(ParseInt(prompts[Len(prompts)].options[k].value))
  /\ lastAwait' = Picked(k)
  /\ UNCHANGED callerVars
  /\ UNCHANGED <<authType, startTime, first, second, authenticated, spinner, opened, lastResp,
                 sawConfirm, prompts, result, drawn>>

\* clack.select resolves with the cancel symbol: parseInt(symbol) throws
SelectCancelled(lat) ==
  /\ pc = "selecting"
  /\ now' = now + lat
  /\ Throw
  /\ lastAwait' = Settled("select", "cancelled")
  /\ UNCHANGED callerVars
  /\ UNCHANGED <<authType, startTime, first, second, call, i, request, authenticated, spinner, opened,
                 posts, lastReq, lastResp, sawConfirm, orgsData, prompts, selectedOrgId, notice, drawn, checkTook>>

\* a get_keys call that treats an error status like a transport fault
KeysRespondsRetryingErrors(lat, resp) ==
  /\ pc = "fetching"
  /\ call = "keys"
  /\ now' = now + lat
  /\ lastResp' = [call |-> "keys", status |-> resp.status, nposts |-> Len(posts), body |-> resp.body]
  /\ lastAwait' = Settled("fetch", "resolved")
  /\ IF ~RespOk(resp.status) /\ i < tries - 1
     THEN pc' = "retrySleep" /\ result' = result
     ELSE pc' = "done" /\ result' = IF ~RespOk(resp.status) \/ ~resp.body.valid \/ ~Truthy(resp.body.api_key)
                                    THEN OuterCatch
                                    ELSE Credential(resp.body)
  /\ UNCHANGED callerVars
  /\ UNCHANGED <<authType, startTime, first, second, call, i, request, authenticated, spinner, opened,
                 posts, lastReq, sawConfirm, orgsData, prompts, selectedOrgId, notice, drawn, checkTook>>

\* the get_keys post returns a response
KeysResponds(lat, resp) ==
  LET status == resp.status
      body == resp.body
  IN
  /\ pc = "fetching"
  /\ call = "keys"
  /\ now' = now + lat
  /\ lastResp' = [call |-> "keys", status |-> status, nposts |-> Len(posts), body |-> body]
  /\ pc' = "done"
  /\ result' = IF ~RespOk(status) \/ ~body.valid \/ ~Truthy(body.api_key)
               THEN OuterCatch
               ELSE Credential(body)
  /\ lastAwait' = Settled("fetch", "resolved")
  /\ UNCHANGED callerVars
  /\ UNCHANGED <<authType, startTime, first, second, call, i, request, authenticated, spinner, opened,
                 posts, lastReq, sawConfirm, orgsData, prompts, selectedOrgId, notice, drawn, checkTook>>

Next ==
  \/ Start
  \/ OpenUrlResolves
  \/ OpenUrlRejects
  \/ \E lat \in Latencies : FetchRejects(lat)
  \/ RetrySleepEnds
  \/ \E lat \in Latencies, resp \in CheckResponses : CheckResponds(lat, resp)
  \/ PollSleepEnds
  \/ \E lat \in Latencies, resp \in OrgsResponses : OrgsResponds(lat, resp)
  \/ \E lat \in Latencies, k \in 1..MaxOrgs : SelectAnswers(lat, k)
  \/ \E lat \in Latencies : SelectCancelled(lat)
  \/ \E lat \in Latencies, resp \in KeysResponses : KeysResponds(lat, resp)

Spec == Init /\ [][Next]_vars

\* every pending await eventually settles: the network answers or faults, the
\* timers fire, the prompt is answered
FairSpec == Spec /\ WF_vars(Next)

\* the runs in which no fetch ever rejects
NextNoFault ==
  \/ Start
  \/ OpenUrlResolves
  \/ OpenUrlRejects
  \/ \E lat \in Latencies, resp \in CheckResponses : CheckResponds(lat, resp)
  \/ PollSleepEnds
  \/ \E lat \in Latencies, resp \in OrgsResponses : OrgsResponds(lat, resp)
  \/ \E lat \in Latencies, k \in 1..MaxOrgs : SelectAnswers(lat, k)
  \/ \E lat \in Latencies : SelectCancelled(lat)
  \/ \E lat \in Latencies, resp \in KeysResponses : KeysResponds(lat, resp)

SpecNoFault == Init /\ [][NextNoFault]_vars

\* the runs in which a fetch may reject on the first try of a call and never
\* on the retry
NextRetryAnswers ==
  \/ Start
  \/ OpenUrlResolves
  \/ OpenUrlRejects
  \/ \E lat \in Latencies : (i = 0 /\ FetchRejects(lat))
  \/ RetrySleepEnds
  \/ \E lat \in Latencies, resp \in CheckResponses : CheckResponds(lat, resp)
  \/ PollSleepEnds
  \/ \E lat \in Latencies, resp \in OrgsResponses : OrgsResponds(lat, resp)
  \/ \E lat \in Latencies, k \in 1..MaxOrgs : SelectAnswers(lat, k)
  \/ \E lat \in Latencies : SelectCancelled(lat)
  \/ \E lat \in Latencies, resp \in KeysResponses : KeysResponds(lat, resp)

SpecRetryAnswers == Init /\ [][NextRetryAnswers]_vars

\* ------------------------------------------------------ isRailsProject
\* isRailsProject(path) is called on a file system
InitRails ==
  /\ AuthInit
  /\ prior = NoPrior
  /\ wizard = NoWizard
  /\ rails \in [pc : {"called"}, path : RailsPaths, fs : FileSystems, result : {None}]

IsRailsProjectReturns ==
  /\ rails.pc = "called"
  /\ rails' = [rails EXCEPT !.pc = "returned", !.result = isRailsProject(rails.path, rails.fs)]
  /\ UNCHANGED <<authVars, prior, wizard>>

NextRails == IsRailsProjectReturns

SpecRails == InitRails /\ [][NextRails]_vars

\* ---------------------------------------------------------- setupRails
\* setupRails(orgKey, detectedPath?) up to its first await, on a disk where
\* ProjectDir is missing, read-only or writable and holds some of Gemfile,
\* config/, config/scout_apm.yml and config/scout_apm.wizard.yml
InitSetupRails ==
  /\ AuthInit
  /\ prior = NoPrior
  /\ wizard = NoWizard
  /\ \E detected \in {NoPath, ProjectDir, <<"app">>}, root \in {"missing", "readonly", "writable"},
        gemfile \in BOOLEAN, config \in BOOLEAN, files \in [ConfigFiles -> {NoContent, OldContent}] :
       /\ root = "missing" => (~gemfile /\ ~config)
       /\ ~config => \A f \in ConfigFiles : files[f] = NoContent
       /\ rails = [pc |-> IF detected # NoPath THEN "confirmDetected" ELSE "textPath",
                   orgKey |-> "ok1", detected |-> detected, projectPath |-> NoPath,
                   root |-> root, gemfile |-> gemfile, config |-> config,
                   files0 |-> files, files |-> files, writes |-> <<>>, made |-> <<>>,
                   prompts |-> <<IF detected # NoPath THEN "Use current directory for Rails setup?" ELSE "Enter your Rails project path:">>,
                   proceed |-> Absent, action |-> Absent]

\* the confirm about the detected directory is answered
DetectedConfirmed(ans, mk, wr) ==
  /\ rails.pc = "confirmDetected"
  /\ rails' = IF TruthyAnswer(ans)
              THEN AfterPath(rails, rails.detected, mk, wr)
              ELSE [rails EXCEPT !.pc = "textPath", !.prompts = Append(@, "Enter your Rails project path:")]
  /\ UNCHANGED <<authVars, prior, wizard>>

\* the path prompt is answered: projectPath = resolve(customPath.toString())
PathEntered(text, mk, wr) ==
  /\ rails.pc = "textPath"
  /\ rails' = AfterPath(rails, resolve(text), mk, wr)
  /\ UNCHANGED <<authVars, prior, wizard>>

\* "Continue anyway?" is answered
ProceedConfirmed(ans, mk, wr) ==
  /\ rails.pc = "confirmProceed"
  /\ rails' = IF ~TruthyAnswer(ans)
              THEN [rails EXCEPT !.pc = "returned", !.proceed = ans]
              ELSE EnsureConfigDir([rails EXCEPT !.proceed = ans], mk, wr)
  /\ UNCHANGED <<authVars, prior, wizard>>

\* "What would you like to do?" is answered
ExistingChosen(a, wr) ==
  /\ rails.pc = "selectExisting"
  /\ rails' = LET r == [rails EXCEPT !.action = a]
                  configDir == join(rails.projectPath, "config")
              IN IF a = "cancel" THEN [r EXCEPT !.pc = "returned"]
                 ELSE IF a = "new" THEN WriteConfig(r, wizardYmlPath(configDir), wr)
                 ELSE WriteConfig(r, ymlPath(configDir), wr)
  /\ UNCHANGED <<authVars, prior, wizard>>

NextSetupRails ==
  \/ \E ans \in Confirms, mk \in BOOLEAN, wr \in WriteOutcomes : DetectedConfirmed(ans, mk, wr)
  \/ \E text \in PathTexts, mk \in BOOLEAN, wr \in WriteOutcomes : PathEntered(text, mk, wr)
  \/ \E ans \in Confirms, mk \in BOOLEAN, wr \in WriteOutcomes : ProceedConfirmed(ans, mk, wr)
  \/ \E a \in ExistingAnswers, wr \in WriteOutcomes : ExistingChosen(a, wr)

SpecSetupRails == InitSetupRails /\ [][NextSetupRails]_vars

\* ------------------------------------------------------------- setup()
\* setup() up to its first await: the customer question is on the screen
InitSetup ==
  /\ AuthInit
  /\ prior = NoPrior
  /\ rails = NoRails
  /\ wizard = [pc |-> "selectAction", keys |-> None, agentKey |-> Absent,
               prompts |-> <<"Are you currently a Scout APM customer?">>, opened |-> <<>>, handed |-> <<>>,
               shouldRun |-> Absent, exec |-> Absent]

Ask(message) == Append(wizard.prompts, message)

\* the customer question is answered: exit returns, the other two answers
\* call authenticateWithUat(action)
ActionChosen(a) ==
  /\ wizard.pc = "selectAction"
  /\ pc = "idle"
  /\ IF a = "exit"
     THEN /\ wizard' = [wizard EXCEPT !.pc = "returned"]
          /\ UNCHANGED authVars
     ELSE /\ wizard' = [wizard EXCEPT !.pc = "authenticating"]
          /\ Enter(a)
  /\ UNCHANGED <<prior, rails>>

\* setup resumes from await authenticateWithUat(action): agentKey is taken
\* from the result and either the fallback or the assistant question
\* starts.  The frame of authenticateWithUat is gone; of its records the
\* last response is kept
AuthenticateReturns ==
  /\ wizard.pc = "authenticating"
  /\ pc = "done"
  /\ IF NoAgentKey(result)
     THEN wizard' = [wizard EXCEPT !.pc = "confirmSettings", !.keys = result,
                                   !.prompts = Ask("Press enter to open the Scout APM settings page")]
     ELSE wizard' = [wizard EXCEPT !.pc = "selectAssistant", !.keys = result, !.agentKey = result.api_key,
                                   !.prompts = Ask("Which AI assistant are you using?")]
  /\ pc' = "returned"
  /\ first' = NoPair
  /\ second' = NoPair
  /\ startTime' = 0
  /\ call' = "none"
  /\ i' = 0
  /\ request' = NoReq
  /\ authenticated' = FALSE
  /\ spinner' = <<>>
  /\ opened' = <<>>
  /\ posts' = <<>>
  /\ lastReq' = NoReq
  /\ sawConfirm' = FALSE
  /\ orgsData' = <<>>
  /\ prompts' = <<>>
  /\ selectedOrgId' = NaN
  /\ notice' = Absent
  /\ result' = None
  /\ checkTook' = 0
  /\ lastAwait' = Settled("none", "none")
  /\ UNCHANGED <<authType, now, lastResp, drawn, prior, rails>>

\* promptAndOpenUrl for the settings page: the confirm is answered
SettingsConfirmed(shouldOpen) ==
  /\ wizard.pc = "confirmSettings"
  /\ IF TruthyAnswer(shouldOpen)
     THEN wizard' = [wizard EXCEPT !.pc = "openingSettings", !.opened = Append(@, settingsUrl(getBaseUrl))]
     ELSE wizard' = [wizard EXCEPT !.pc = "collectKey", !.prompts = Ask("Please paste your API key below:")]
  /\ UNCHANGED <<authVars, prior, rails>>

\* openUrl of the settings page resolves: collectKey asks for the key
SettingsOpened ==
  /\ wizard.pc = "openingSettings"
  /\ wizard' = [wizard EXCEPT !.pc = "collectKey", !.prompts = Ask("Please paste your API key below:")]
  /\ UNCHANGED <<authVars, prior, rails>>

\* openUrl of the settings page rejects: nothing in setup catches it
SettingsOpenRejects ==
  /\ wizard.pc = "openingSettings"
  /\ wizard' = [wizard EXCEPT !.pc = "rejected"]
  /\ UNCHANGED <<authVars, prior, rails>>

\* clack.text resolves with the text typed: agentKey = key.toString()
KeyEntered(key) ==
  /\ wizard.pc = "collectKey"
  /\ IF Truthy(key)
     THEN wizard' = [wizard EXCEPT !.pc = "selectAssistant", !.agentKey = key,
                                   !.prompts = Ask("Which AI assistant are you using?")]
     ELSE wizard' = [wizard EXCEPT !.pc = "returned", !.agentKey = key]
  /\ UNCHANGED <<authVars, prior, rails>>

\* the assistant question is answered: the switch on aiAssistant up to the
\* next await or to the end of setup
AssistantChosen(x) ==
  /\ wizard.pc = "selectAssistant"
  /\ wizard' =
       IF x = "cursor"
       THEN [wizard EXCEPT !.pc = "confirmCursor", !.prompts = Ask("Press enter to open the Cursor deeplink")]
       ELSE IF x = "claude-code"
       THEN [wizard EXCEPT !.pc = "confirmRun", !.prompts = Ask("Do you want to run this now?")]
       ELSE IF x = "claude-desktop"
       THEN [wizard EXCEPT !.pc = "returned",
                           !.handed = Append(@, [to |-> "claude-desktop", what |-> <<"config", mcpConfig(wizard.agentKey)>>])]
       ELSE [wizard EXCEPT !.pc = "returned",
                           !.handed = Append(@, [to |-> "manual", what |-> <<"config", mcpConfig(wizard.agentKey)>>])]
  /\ UNCHANGED <<authVars, prior, rails>>

\* setupCursor: the confirm of promptAndOpenUrl is answered
CursorConfirmed(shouldOpen) ==
  /\ wizard.pc = "confirmCursor"
  /\ IF TruthyAnswer(shouldOpen)
     THEN wizard' = [wizard EXCEPT !.pc = "openingCursor", !.opened = Append(@, generateCursorDeeplink(wizard.agentKey)),
                                   !.handed = Append(@, [to |-> "cursor", what |-> generateCursorDeeplink(wizard.agentKey)])]
     ELSE wizard' = [wizard EXCEPT !.pc = "returned"]
  /\ UNCHANGED <<authVars, prior, rails>>

\* openUrl of the deeplink settles: setup returns, or rejects with it
CursorOpenSettles(ok) ==
  /\ wizard.pc = "openingCursor"
  /\ wizard' = [wizard EXCEPT !.pc = IF ok THEN "returned" ELSE "rejected"]
  /\ UNCHANGED <<authVars, prior, rails>>

\* setupClaudeCode: the confirm is answered; on yes execAsync(command) runs
RunConfirmed(shouldRun) ==
  /\ wizard.pc = "confirmRun"
  /\ IF ~TruthyAnswer(shouldRun)
     THEN wizard' = [wizard EXCEPT !.pc = "returned", !.shouldRun = shouldRun]
     ELSE wizard' = [wizard EXCEPT !.pc = "exec", !.shouldRun = shouldRun,
                                   !.handed = Append(@, [to |-> "claude-code", what |-> ClaudeCommand(wizard.agentKey)])]
  /\ UNCHANGED <<authVars, prior, rails>>

\* execAsync settles: a rejection is caught and reported by setupClaudeCode
ExecSettles(ok) ==
  /\ wizard.pc = "exec"
  /\ wizard' = [wizard EXCEPT !.pc = "returned", !.exec = IF ok THEN "resolved" ELSE "rejected"]
  /\ UNCHANGED <<authVars, prior, rails>>

NextSetup ==
  \/ \E a \in AuthTypes \cup {"exit"} : ActionChosen(a)
  \/ OpenUrlResolves
  \/ OpenUrlRejects
  \/ \E lat \in Latencies : FetchRejects(lat)
  \/ RetrySleepEnds
  \/ \E lat \in Latencies, resp \in CheckResponses : CheckResponds(lat, resp)
  \/ PollSleepEnds
  \/ \E lat \in Latencies, resp \in OrgsResponses : OrgsResponds(lat, resp)
  \/ \E lat \in Latencies, k \in 1..MaxOrgs : SelectAnswers(lat, k)
  \/ \E lat \in Latencies : SelectCancelled(lat)
  \/ \E lat \in Latencies, resp \in KeysResponses : KeysResponds(lat, resp)
  \/ AuthenticateReturns
  \/ \E shouldOpen \in Confirms : SettingsConfirmed(shouldOpen)
  \/ SettingsOpened
  \/ SettingsOpenRejects
  \/ \E key \in ManualKeys : KeyEntered(key)
  \/ \E x \in Assistants : AssistantChosen(x)
  \/ \E shouldOpen \in Confirms : CursorConfirmed(shouldOpen)
  \/ \E ok \in BOOLEAN : CursorOpenSettles(ok)
  \/ \E shouldRun \in Confirms : RunConfirmed(shouldRun)
  \/ \E ok \in BOOLEAN : ExecSettles(ok)

SpecSetup == InitSetup /\ [][NextSetup]_vars

\* the runs of a caller that calls authenticateWithUat a second time, with
\* the same argument, when the first call returned null
NextReinvoke ==
  \/ Next
  \/ Reinvoke(authType)

SpecReinvoke == Init /\ [][NextReinvoke]_vars

TypeOK ==
  /\ pc \in {"idle", "opening", "fetching", "retrySleep", "pollSleep", "selecting", "done"}
  /\ i \in 0..(tries - 1)
  /\ result.kind \in {"none", "null", "keys"}

\* ------------------------------------------------------------------ claims
\* the decimal text of the organisation ids of the model
DecimalText(id) == IF id = 7 THEN <<"7">> ELSE <<"1", "2">>

KeysPosts == {k \in 1..Len(posts) : posts[k].kind = "keys"}

TimedOut == pc = "done" /\ Len(spinner) > 0 /\ spinner[Len(spinner)] = "fail: Authentication timed out after 5 minutes"

\* C1: whatever the collaborators do, authenticate ends by returning a
\* credential or null, and nothing is returned or thrown before it ends
C1_NoFaultEscapes ==
  /\ pc = "done" => (result = Null \/ result.kind = "keys")
  /\ pc # "done" => result = None

\* both tries of the first status check raised a transport fault
C1_Witness == pc = "done" /\ result = Null /\ call = "check" /\ i = 1 /\ lastResp = NoResp

\* C2: when a status check reported confirmation, list-accounts answered 2xx
\* with at least one account and fetch-credential answered 2xx with both
\* keys, the result is exactly the two keys of the fetch-credential response
C2_ConfirmedFlowReturnsKeys ==
  (/\ pc = "done"
   /\ sawConfirm
   /\ Len(orgsData) >= 1
   /\ lastResp.call = "keys"
   /\ lastResp.status \in 200..299
   /\ lastResp.body.valid
   /\ lastResp.body.org_key \notin {Absent, ""}
   /\ lastResp.body.api_key \notin {Absent, ""})
  => result = [kind |-> "keys", org_key |-> lastResp.body.org_key, api_key |-> lastResp.body.api_key]

\* confirmation at the second poll, one account, keys {ok1, ak1}
C2_Witness ==
  /\ pc = "done"
  /\ authType = "sign_in"
  /\ now = 5000
  /\ Len(orgsData) = 1
  /\ prompts = <<>>
  /\ result = [kind |-> "keys", org_key |-> "ok1", api_key |-> "ak1"]

\* an attempt that polled, saw no confirmation and got a well-formed answer
\* to its last status check
C3_NeverConfirmed ==
  /\ pc = "done"
  /\ Len(spinner) > 0
  /\ ~sawConfirm
  /\ lastResp.call = "check"
  /\ (lastResp.status \in 200..299 => lastResp.body.valid)

\* C3 as stated: without confirmation and without transport fault
\* authenticate returns null between 300 s and 305 s after the loop started
C3_Original ==
  C3_NeverConfirmed =>
    /\ result = Null
    /\ now - startTime >= 300000
    /\ now - startTime <= 300000 + 5000

\* C3 amended: null is returned no earlier than 300 s after the loop started
\* and less than 5 s plus the duration of the last status check after that
C3_TimeoutWindow ==
  C3_NeverConfirmed =>
    /\ result = Null
    /\ TimedOut
    /\ now - startTime >= 300000
    /\ now - startTime < 300000 + checkTook + 5000

\* a timeout whose last status check took time and ended after the 305 s
C3_Witness == C3_NeverConfirmed /\ TimedOut /\ checkTook > 0 /\ now - startTime > 305000

\* C4: every attempt reaches a terminal state when every await settles
C4_Terminates == <>(pc = "done")

\* an attempt that polled until the deadline and then ended
C4_Witness == TimedOut /\ result = Null /\ ~authenticated

\* C5: a 2xx fetch-credential response without a non-empty api_key gives
\* null, whatever its org_key
C5_MissingApiKeyGivesNull ==
  (/\ lastResp.call = "keys"
   /\ lastResp.status \in 200..299
   /\ (~lastResp.body.valid \/ lastResp.body.api_key \in {Absent, ""}))
  => (pc = "done" /\ result = Null)

\* api_key missing while org_key is present
C5_Witness ==
  /\ lastResp.call = "keys"
  /\ lastResp.status = 200
  /\ lastResp.body.valid
  /\ lastResp.body.api_key = Absent
  /\ lastResp.body.org_key = "ok1"
  /\ result = Null

\* C6: a 2xx fetch-credential response with an api_key but without a
\* non-empty org_key gives null, never a partial credential
C6_PartialCredentialGivesNull ==
  (/\ lastResp.call = "keys"
   /\ lastResp.status \in 200..299
   /\ lastResp.body.valid
   /\ lastResp.body.api_key \notin {Absent, ""}
   /\ lastResp.body.org_key \in {Absent, ""})
  => (pc = "done" /\ result = Null)

\* C7: a 2xx list-accounts response without accounts gives null, with no
\* prompt and no fetch-credential request
C7_ZeroAccountsGivesNull ==
  (/\ lastResp.call = "orgs"
   /\ lastResp.status \in 200..299
   /\ lastResp.body.valid
   /\ (~lastResp.body.hasOrgs \/ lastResp.body.orgs = <<>>))
  => (pc = "done" /\ result = Null /\ prompts = <<>> /\ KeysPosts = {})

\* an empty orgs list
C7_Witness ==
  /\ lastResp.call = "orgs"
  /\ lastResp.status = 200
  /\ lastResp.body.valid
  /\ lastResp.body.hasOrgs
  /\ lastResp.body.orgs = <<>>
  /\ pc = "done"

\* C8: after a non-2xx list-accounts or fetch-credential response the attempt
\* has ended with null and no request was sent after the one it answered
C8_ErrorStatusIsTerminal ==
  (lastResp.call \in {"orgs", "keys"} /\ lastResp.status \notin 200..299)
  => /\ pc = "done"
     /\ result = Null
     /\ Len(posts) = lastResp.nposts
     /\ lastReq.kind = lastResp.call
     /\ (lastResp.call = "orgs" => (prompts = <<>> /\ KeysPosts = {}))

\* list-accounts answered 500 with a well-formed body
C8_Witness ==
  /\ lastResp.call = "orgs"
  /\ lastResp.status = 500
  /\ lastResp.body.valid
  /\ pc = "done"

\* C9: with exactly one account there is no prompt and the fetch-credential
\* request carries that account's id as org_id
C9_SingleAccountAutoSelected ==
  Len(orgsData) = 1
  => /\ prompts = <<>>
     /\ KeysPosts # {}
     /\ \A k \in KeysPosts : posts[k].form.org_id = DecimalText(orgsData[1].id)

\* the one account has id 12 and its fetch-credential request is in flight
C9_Witness == Len(orgsData) = 1 /\ orgsData[1].id = 12 /\ pc = "fetching" /\ call = "keys"

\* C10: with N > 1 accounts the prompt is invoked exactly once, with the N
\* accounts in the order of the response, id text as value and name as label
C10_PromptListsAllAccounts ==
  /\ Len(orgsData) > 1
     => /\ Len(prompts) = 1
        /\ prompts[1].message = "Select an organization:"
        /\ Len(prompts[1].options) = Len(orgsData)
        /\ \A k \in 1..Len(orgsData) :
             /\ prompts[1].options[k].value = DecimalText(orgsData[k].id)
             /\ prompts[1].options[k].label = orgsData[k].name
  /\ prompts # <<>> => Len(orgsData) > 1

\* two different accounts, the prompt waiting for its answer
C10_Witness == pc = "selecting" /\ Len(orgsData) = 2 /\ orgsData[1].id = 12 /\ orgsData[2].id = 7

OrgsPosts == {k \in 1..Len(posts) : posts[k].kind = "orgs"}

FetchRejected == lastAwait.on = "fetch" /\ lastAwait.outcome = "rejected"
FetchResolved == lastAwait.on = "fetch" /\ lastAwait.outcome = "resolved"
UserPicked == lastAwait.on = "select" /\ lastAwait.outcome = "resolved"

\* C11: when the user picks one of several accounts, the fetch-credential
\* request sent on that answer carries the id of the account shown in the
\* picked option as org_id, whatever the position of the option
C11_SelectedAccountIsRequested ==
  UserPicked =>
    /\ Len(orgsData) > 1
    /\ lastAwait.option \in 1..Len(orgsData)
    /\ prompts[1].options[lastAwait.option].label = orgsData[lastAwait.option].name
    /\ pc = "fetching"
    /\ lastReq.kind = "keys"
    /\ lastReq.form.org_id = DecimalText(orgsData[lastAwait.option].id)
    /\ posts[Len(posts)] = lastReq

\* accounts 7 and 12 in this order, the user picked the second
C11_Witness ==
  /\ UserPicked
  /\ lastAwait.option = 2
  /\ Len(orgsData) = 2
  /\ orgsData[1].id = 7
  /\ orgsData[2].id = 12
  /\ lastReq.form.org_id = <<"1", "2">>

\* the attempt ended with null for a reason that is not a transport fault
NullByResponse ==
  \/ lastAwait = Settled("openUrl", "rejected")
  \/ TimedOut /\ lastAwait = Settled("sleep", "resolved")
  \/ lastAwait = Settled("select", "cancelled")
  \/ /\ FetchResolved
     /\ \/ lastResp.call = "check" /\ lastResp.status \in 200..299 /\ ~lastResp.body.valid
        \/ /\ lastResp.call = "orgs"
           /\ (lastResp.status \notin 200..299 \/ ~lastResp.body.valid \/ ~lastResp.body.hasOrgs \/ lastResp.body.orgs = <<>>)
        \/ /\ lastResp.call = "keys"
           /\ (lastResp.status \notin 200..299 \/ ~lastResp.body.valid \/ lastResp.body.api_key \in {Absent, ""})

\* C12: when no retry faults, a fault on the first try of a call never
\* surfaces: the attempt ends as the responses alone decide, and with
\* successful responses it ends with the credential
C12_RetryIsTransparent ==
  pc = "done" =>
    /\ ~FetchRejected
    /\ result = Null => NullByResponse
    /\ (/\ authenticated
        /\ Len(orgsData) >= 1
        /\ lastResp.call = "keys"
        /\ lastResp.status \in 200..299
        /\ lastResp.body.valid
        /\ lastResp.body.api_key \notin {Absent, ""})
       => result = [kind |-> "keys", org_key |-> lastResp.body.org_key, api_key |-> lastResp.body.api_key]

\* the first try of each of the three calls faulted and the credential is
\* returned: three retry delays and nothing else on the clock
C12_Witness ==
  /\ pc = "done"
  /\ result = [kind |-> "keys", org_key |-> "ok1", api_key |-> "ak1"]
  /\ i = 1
  /\ Len(posts) = 4
  /\ now = 3000

\* C13: a call makes at most two tries; the second try follows a fault of the
\* first and a delay of one second and re-sends the request; a fault of the
\* second try ends the attempt with the fault, with no delay and no request
\* after it
C13_AtMostTwoTries ==
  /\ [](/\ i \in {0, 1}
        /\ Cardinality(OrgsPosts) <= 2
        /\ Cardinality(KeysPosts) <= 2
        /\ pc = "retrySleep" => (i = 0 /\ FetchRejected)
        /\ (pc = "fetching" /\ i = 1) => lastAwait = Settled("sleep", "resolved")
        /\ (FetchRejected /\ i = 0) => pc = "retrySleep"
        /\ (FetchRejected /\ i = 1) => (pc = "done" /\ result = Null))
  /\ [][/\ i' = i + 1 => (pc = "retrySleep" /\ now' = now + 1000 /\ lastReq' = request /\ request' = request)
        /\ (pc = "fetching" /\ i = 1 /\ lastAwait'.on = "fetch" /\ lastAwait'.outcome = "rejected")
           => (pc' = "done" /\ now' - now <= MaxLatency * 1000 /\ posts' = posts /\ lastReq' = lastReq)]_vars

\* both tries of the list-accounts call faulted
C13_Witness ==
  /\ FetchRejected
  /\ i = 1
  /\ call = "orgs"
  /\ Cardinality(OrgsPosts) = 2
  /\ pc = "done"

\* C14: a response, whatever its status, is handed to the caller: no retry
\* delay and no second try follow it, and after an error status the call is
\* not sent again
C14_ResponsesAreNotRetried ==
  FetchResolved =>
    /\ pc # "retrySleep"
    /\ pc = "fetching" => (i = 0 /\ call # lastResp.call /\ lastReq.kind = call)
    /\ lastResp.status \notin 200..299 =>
         /\ lastResp.call = "check" => pc = "pollSleep"
         /\ lastResp.call \in {"orgs", "keys"} => (pc = "done" /\ Len(posts) = lastResp.nposts)

\* the first try of fetch-credential answered 500
C14_Witness ==
  /\ FetchResolved
  /\ lastResp.call = "keys"
  /\ lastResp.status = 500
  /\ i = 0
  /\ Cardinality(KeysPosts) = 1

\* C15: when both tries of a status check fault the attempt has ended: the
\* spinner was failed with 'Authentication failed', no list-accounts and no
\* fetch-credential request was sent and null is returned
C15_CheckFaultAbortsPolling ==
  (FetchRejected /\ call = "check" /\ i = 1) =>
    /\ pc = "done"
    /\ result = Null
    /\ spinner[Len(spinner)] = "fail: Authentication failed"
    /\ posts = <<>>
    /\ lastReq.kind = "check"
    /\ ~authenticated

\* the fault hit a status check after earlier polls had been answered
C15_Witness ==
  /\ FetchRejected
  /\ call = "check"
  /\ i = 1
  /\ lastResp.call = "check"
  /\ now >= 5000
  /\ pc = "done"

\* C16: after openURL failed the attempt goes on into the polling loop
C16_OpenUrlFailureNotFatal ==
  lastAwait = Settled("openUrl", "rejected") => (pc = "fetching" /\ call = "check" /\ result = None)

C18_ListAccountsOnlyAfterConfirmation ==
  /\ OrgsPosts # {} => (sawConfirm /\ authenticated)
  /\ ~sawConfirm => posts = <<>>
  /\ TimedOut => posts = <<>>
  /\ (pc = "done" /\ ~authenticated) => posts = <<>>

\* the list-accounts request is on the wire after a confirmation that came
\* at a later poll
C18_Witness ==
  /\ pc = "fetching"
  /\ call = "orgs"
  /\ Cardinality(OrgsPosts) = 1
  /\ sawConfirm
  /\ now >= 10000

\* C19: a fetch-credential request is only sent after list-accounts answered
\* 2xx with at least one account and one of these accounts was selected, by
\* the code when there is one and by the answer to the prompt otherwise
C19_FetchCredentialOnlyAfterSelection ==
  /\ pc = "selecting" => KeysPosts = {}
  /\ KeysPosts # {} =>
       /\ Len(orgsData) >= 1
       /\ \E k \in 1..Len(orgsData) : selectedOrgId = orgsData[k].id
       /\ Len(orgsData) > 1 => Len(prompts) = 1
       /\ \A p \in KeysPosts : posts[p].form.org_id = DecimalText(selectedOrgId)
  /\ (lastReq.kind = "keys" /\ lastResp.call # "keys") =>
       /\ lastResp.call = "orgs"
       /\ lastResp.status \in 200..299
       /\ lastResp.body.valid
       /\ lastResp.body.hasOrgs
       /\ Len(lastResp.body.orgs) >= 1
       /\ orgsData = lastResp.body.orgs
       /\ (Len(orgsData) > 1 /\ i = 0 /\ pc = "fetching") => UserPicked

\* fetch-credential is on the wire for the first of two accounts
C19_Witness ==
  /\ pc = "fetching"
  /\ call = "keys"
  /\ Len(orgsData) = 2
  /\ selectedOrgId = orgsData[1].id
  /\ orgsData[2].id # selectedOrgId
  /\ lastResp.call = "orgs"

\* a pair is in flight from the publication of its challenge until a request
\* carries its verifier
InFlightFirst ==
  /\ opened # <<>>
  /\ ~\E k \in 1..Len(posts) : posts[k].form.verify_token = Base64Url(first.verifier)
InFlightSecond ==
  /\ second # NoPair
  /\ \E k \in OrgsPosts : posts[k].form.challenge_token = Base64Url(second.challenge)
  /\ ~\E k \in 1..Len(posts) : posts[k].form.verify_token = Base64Url(second.verifier)

\* C20: at most one pair is in flight; the second pair exists only after a
\* status check confirmed the first, and its challenge is published only in
\* the list-accounts request, which redeems the first verifier
C20_OnePairInFlight ==
  /\ ~(InFlightFirst /\ InFlightSecond)
  /\ second # NoPair => (first # NoPair /\ second # first /\ sawConfirm /\ authenticated)
  /\ \A k \in OrgsPosts :
       /\ posts[k].form.verify_token = Base64Url(first.verifier)
       /\ posts[k].form.challenge_token = Base64Url(second.challenge)
  /\ \A k \in 1..Len(opened) : opened[k][5] # Base64Url(second.challenge)
  /\ lastReq.kind = "check" => (second = NoPair /\ lastReq.url[3] = Base64Url(first.challenge))

\* the second pair is in flight: list-accounts was sent, fetch-credential not yet
C20_Witness ==
  /\ InFlightSecond
  /\ ~InFlightFirst
  /\ pc = "selecting"

\* C21: no request carries a verifier together with the challenge of that
\* verifier: the opened URL and the status checks carry challenge 1 alone,
\* list-accounts carries verifier 1 and challenge 2, fetch-credential
\* carries verifier 2 and no challenge
C21_VerifierNeverWithOwnChallenge ==
  /\ \A k \in 1..Len(opened) :
       /\ Len(opened[k]) = 5
       /\ opened[k][5] = <<"b64url", first.challenge>>
  /\ lastReq.kind = "check" =>
       /\ lastReq.url = <<getBaseUrl, "/uat/auth/check/", <<"b64url", first.challenge>>>>
       /\ lastReq.form = <<>>
  /\ \A k \in OrgsPosts :
       /\ DOMAIN posts[k].form = {"verify_token", "challenge_token"}
       /\ posts[k].form.verify_token = <<"b64url", first.verifier>>
       /\ posts[k].form.challenge_token = <<"b64url", second.challenge>>
       /\ posts[k].form.challenge_token # <<"b64url", <<"sha256", posts[k].form.verify_token[2]>>>>
       /\ Len(posts[k].url) = 2
  /\ \A k \in KeysPosts :
       /\ DOMAIN posts[k].form = {"verify_token", "org_id"}
       /\ posts[k].form.verify_token = <<"b64url", second.verifier>>
       /\ Len(posts[k].url) = 2
  /\ first.verifier # <<>> => first.challenge # second.challenge

\* all three kinds of request were sent: list-accounts once, fetch-credential
\* with its retry
C21_Witness ==
  /\ pc = "fetching"
  /\ call = "keys"
  /\ i = 1
  /\ Cardinality(OrgsPosts) = 1
  /\ Cardinality(KeysPosts) = 2

\* C22: the challenge of every generated pair is the SHA-256 digest of its
\* verifier, and the two pairs of an attempt have different verifiers (the
\* random source of the model never repeats a value)
C22_ChallengeIsDigestOfVerifier ==
  /\ first # NoPair =>
       /\ first.verifier # <<>>
       /\ first.challenge = <<"sha256", first.verifier>>
  /\ second # NoPair =>
       /\ second.verifier # <<>>
       /\ second.challenge = <<"sha256", second.verifier>>
       /\ first # NoPair
       /\ second.verifier # first.verifier
  /\ Cardinality(drawn) = (IF first = NoPair THEN 0 ELSE 1) + (IF second = NoPair THEN 0 ELSE 1)

\* both pairs of an attempt exist
C22_Witness ==
  /\ first # NoPair
  /\ second # NoPair
  /\ Cardinality(drawn) = 2
  /\ pc = "done"
  /\ result.kind = "keys"

\* C25: the URL opened for a sign_in attempt is base + /uat/auth/sign_in/ +
\* base64url(challenge 1) followed by the query string ?utm_source=scout_wizard
C25_OpenedUrlHasUtmSource ==
  (pc # "idle" /\ authType = "sign_in") =>
    /\ Len(opened) = 1
    /\ Len(opened[1]) = 6
    /\ opened[1][1] = getBaseUrl
    /\ opened[1][2] = "/uat/auth/"
    /\ opened[1][3] = "sign_in"
    /\ opened[1][4] = "/"
    /\ opened[1][5] = <<"b64url", first.challenge>>
    /\ opened[1][6] = "?utm_source=scout_wizard"

\* the status check that was answered last did not report confirmation: an
\* error status, or a 2xx JSON body whose has_authenticated is false or absent
Unconfirmed ==
  /\ lastResp.call = "check"
  /\ \/ lastResp.status \notin 200..299
     \/ lastResp.body.valid /\ lastResp.body.has_authenticated \in {Absent, "false"}

\* C27: the sleep between two status checks is always 5 seconds, whatever
\* the number of checks made before, and only an unconfirmed check leads to
\* it; the 1-second delay happens only after a transport fault, inside the
\* call that faulted
C27_FixedIntervalPolling ==
  [][/\ pc = "pollSleep" =>
          /\ now' - now = 5000
          /\ \/ pc' = "fetching" /\ call' = "check" /\ i' = 0 /\ lastReq'.kind = "check"
             \/ pc' = "done"
     /\ pc' = "pollSleep" =>
          /\ pc = "fetching"
          /\ call = "check"
          /\ Unconfirmed'
          /\ lastAwait'.on = "fetch"
          /\ lastAwait'.outcome = "resolved"
     /\ pc = "retrySleep" =>
          /\ now' - now = 1000
          /\ lastAwait.on = "fetch"
          /\ lastAwait.outcome = "rejected"
          /\ call' = call
          /\ lastReq' = request
     /\ ~(pc = "fetching" /\ pc' = "fetching" /\ call' = "check")]_vars

\* the loop sleeps after a check made more than 200 seconds into the polling
C27_Witness ==
  /\ pc = "pollSleep"
  /\ now - startTime > 200000
  /\ Unconfirmed

\* C28: after confirmation the deadline is not tested again: the attempt
\* never ends with the timeout, however late list-accounts, the prompt or
\* fetch-credential are answered
C28_NoDeadlineAfterConfirmation ==
  authenticated =>
    /\ \A k \in 1..Len(spinner) : spinner[k] # "fail: Authentication timed out after 5 minutes"
    /\ pc = "selecting" => result = None
    /\ UserPicked => (pc = "fetching" /\ call = "keys" /\ result = None)
    /\ (pc = "done" /\ result = Null) =>
         \/ FetchRejected /\ call \in {"orgs", "keys"}
         \/ lastAwait = Settled("select", "cancelled")
         \/ FetchResolved /\ lastResp.call \in {"orgs", "keys"}

\* the prompt was answered more than 300 seconds after the loop started and
\* fetch-credential is sent
C28_Witness ==
  /\ authenticated
  /\ UserPicked
  /\ now - startTime > 300000
  /\ pc = "fetching"
  /\ call = "keys"

\* C29: a status check answered with an error status, or with a 2xx JSON
\* body whose has_authenticated is false or absent, leaves the attempt in the
\* 5-second sleep, without a result; the sleep ends in the next status check
\* or in the timeout
C29_UnconfirmedCheckKeepsPolling ==
  /\ []((FetchResolved /\ Unconfirmed) =>
          (pc = "pollSleep" /\ result = None /\ ~authenticated /\ posts = <<>>))
  /\ [][pc = "pollSleep" =>
          \/ pc' = "fetching" /\ call' = "check" /\ result' = None
          \/ pc' = "done" /\ result' = Null /\ now' - startTime >= 300000]_vars

\* a 500 whose body says has_authenticated: true, answered late in the polling
C29_Witness ==
  /\ FetchResolved
  /\ lastResp.call = "check"
  /\ lastResp.status = 500
  /\ lastResp.body.valid
  /\ lastResp.body.has_authenticated = "true"
  /\ pc = "pollSleep"
  /\ now - startTime > 100000

\* C30 as stated: a status check, first try or retry, is only on the wire
\* while fewer than 300 seconds have passed since the loop started
C30_NoCheckAfterDeadline ==
  (pc = "fetching" /\ call = "check") => now - startTime < 300000

\* C30 amended: the first try of a status check is sent before the 300
\* seconds have passed; its retry is sent when the fault and the 1-second
\* delay are over, whatever the time then
C30_NoCheckStartedAfterDeadline ==
  (pc = "fetching" /\ call = "check") =>
    /\ (now - checkTook) - startTime < 300000
    /\ i = 0 => checkTook = 0
    /\ i = 1 => checkTook >= 1000

\* a retry of a status check on the wire 300 seconds or more after the start
C30_Witness ==
  /\ pc = "fetching"
  /\ call = "check"
  /\ i = 1
  /\ now - startTime >= 300000

\* the verifiers and challenges of the earlier call, as they would appear in
\* a request
PriorTokens ==
  {Base64Url(prior.first.verifier), Base64Url(prior.first.challenge),
   Base64Url(prior.second.verifier), Base64Url(prior.second.challenge)}

\* C23: a call made after a failed one is a fresh attempt: it has new pairs,
\* opens the browser again, polls with a deadline of 300 seconds from its own
\* start, and no token, confirmation or selected account of the earlier call
\* appears in its requests
C23_ReinvocationIsFresh ==
  prior # NoPrior =>
    /\ first # NoPair
    /\ first.verifier \notin {prior.first.verifier, prior.second.verifier}
    /\ second # NoPair => second.verifier \notin {prior.first.verifier, prior.second.verifier}
    /\ Len(opened) = 1
    /\ opened[1][5] = <<"b64url", first.challenge>>
    /\ opened[1][5] \notin PriorTokens
    /\ spinner # <<>> => (spinner[1] = "start" /\ startTime = ReinvokeAt)
    /\ lastReq.kind = "check" => (lastReq.url[3] = <<"b64url", first.challenge>> /\ lastReq.url[3] \notin PriorTokens)
    /\ (pc = "fetching" /\ call = "check" /\ i = 0) => now - ReinvokeAt < 300000
    /\ TimedOut => now - ReinvokeAt >= 300000
    /\ ~authenticated => posts = <<>>
    /\ authenticated => sawConfirm
    /\ \A k \in OrgsPosts :
         /\ posts[k].form.verify_token = <<"b64url", first.verifier>>
         /\ posts[k].form.challenge_token = <<"b64url", second.challenge>>
         /\ posts[k].form.verify_token \notin PriorTokens
         /\ posts[k].form.challenge_token \notin PriorTokens
    /\ \A k \in KeysPosts :
         /\ posts[k].form.verify_token = <<"b64url", second.verifier>>
         /\ posts[k].form.verify_token \notin PriorTokens
         /\ \E n \in 1..Len(orgsData) : posts[k].form.org_id = DecimalText(orgsData[n].id)

\* the earlier call was confirmed and failed after it had generated its
\* second pair; the later call was confirmed at a later poll and asks for
\* the keys of an account
C23_Witness ==
  /\ prior # NoPrior
  /\ prior.second # NoPair
  /\ pc = "fetching"
  /\ call = "keys"
  /\ selectedOrgId = 12
  /\ Cardinality(drawn) = 4
  /\ now > ReinvokeAt + 5000

\* what setupX receives of the key, for each assistant
HandedFor(to, key) ==
  IF to = "cursor" THEN generateCursorDeeplink(key)
  ELSE IF to = "claude-code" THEN ClaudeCommand(key)
  ELSE <<"config", mcpConfig(key)>>
AskedForKey == \E n \in DOMAIN wizard.prompts : wizard.prompts[n] = "Please paste your API key below:"
OfferedSettings == \E n \in DOMAIN wizard.prompts : wizard.prompts[n] = "Press enter to open the Scout APM settings page"

\* C24: once authenticate has returned null and the settings offer is over,
\* setup has offered the settings page and asked for the API key, whatever
\* became of the browser; once it has returned a credential, setup never
\* asks for a key and whatever it hands to an assistant configuration is
\* built from the api_key of the get_keys response
C24_NullFallsBackCredentialIsHanded ==
  wizard.pc \notin {"none", "selectAction", "authenticating"} =>
    /\ (wizard.keys = Null /\ wizard.pc \notin {"confirmSettings", "openingSettings"}) =>
          (OfferedSettings /\ AskedForKey)
    /\ wizard.keys.kind = "keys" =>
          /\ ~AskedForKey
          /\ lastResp.call = "keys"
          /\ wizard.agentKey = lastResp.body.api_key
          /\ \A n \in DOMAIN wizard.handed :
                wizard.handed[n].what = HandedFor(wizard.handed[n].to, lastResp.body.api_key)

\* C26: when isRailsProject has returned, it returned a boolean, true
\* exactly when path/Gemfile and path/config both exist; a missing one and
\* an existence check that throws both give false
C26_RailsProjectIffBothExist ==
  rails.pc = "returned" =>
    /\ rails.result.kind = "returned"
    /\ rails.result.value = (rails.fs[Append(rails.path, "Gemfile")] = "yes" /\ rails.fs[Append(rails.path, "config")] = "yes")
C26_Witness ==
  /\ rails.pc = "returned"
  /\ rails.path = <<"srv", "app">>
  /\ rails.fs[<<"srv", "app", "Gemfile">>] = "yes"
  /\ rails.fs[<<"srv", "app", "config">>] = "throws"
  /\ rails.fs[<<"app", "config">>] = "yes"
  /\ rails.result = [kind |-> "returned", value |-> FALSE]

\* the response received last is a status check with an ok status whose body
\* says has_authenticated = true
ConfirmationArrived ==
  /\ lastResp.call = "check"
  /\ RespOk(lastResp.status)
  /\ lastResp.body.valid
  /\ lastResp.body.has_authenticated = "true"

\* C31: a confirming response to a status check is accepted whenever it
\* arrives, the deadline having been tested only before the check was
\* started: right after its arrival the get_orgs request is on the wire,
\* and as long as it is the last response the attempt is authenticated and
\* has not timed out
C31_LateConfirmationIsAccepted ==
  ConfirmationArrived =>
    /\ authenticated
    /\ ~TimedOut
    /\ OrgsPosts # {}
    /\ \A n \in DOMAIN spinner : spinner[n] # "fail: Authentication timed out after 5 minutes"
    /\ (FetchResolved => (pc = "fetching" /\ call = "orgs" /\ i = 0 /\ request = OrgsRequest(first, second)))
C31_Witness ==
  /\ ConfirmationArrived
  /\ FetchResolved
  /\ now - startTime > timeoutMs
  /\ pc = "fetching"
  /\ call = "orgs"

\* the POST requests of this attempt that carry the verifier of a pair
PostsCarrying(pair) == {k \in 1..Len(posts) : posts[k].form.verify_token = Base64Url(pair.verifier)}

\* C32 as stated: each verifier is put on the wire in at most one HTTP
\* request, transport retries included
C32_VerifierSentOnce ==
  /\ Cardinality(PostsCarrying(first)) <= 1
  /\ Cardinality(PostsCarrying(second)) <= 1

\* C32 amended: each verifier is sent by one postForm call only, the first
\* verifier by get_orgs and the second by get_keys; that call puts it on the
\* wire once and, after a transport fault, once more in an identical
\* request, so at most twice
C32_VerifierSentByOneCall ==
  /\ PostsCarrying(first) = OrgsPosts
  /\ second # NoPair => PostsCarrying(second) = KeysPosts
  /\ Cardinality(OrgsPosts) <= 2
  /\ Cardinality(KeysPosts) <= 2
  /\ \A k, l \in OrgsPosts : posts[k] = posts[l]
  /\ \A k, l \in KeysPosts : posts[k] = posts[l]
  /\ (pc \in {"fetching", "retrySleep"} /\ call = "orgs") => Cardinality(OrgsPosts) = i + 1
  /\ (pc \in {"fetching", "retrySleep"} /\ call = "keys") => Cardinality(KeysPosts) = i + 1
  /\ Len(posts) = Cardinality(OrgsPosts) + Cardinality(KeysPosts)
C32_Witness ==
  /\ Cardinality(PostsCarrying(first)) = 2
  /\ Cardinality(PostsCarrying(second)) = 2
  /\ pc = "done"
  /\ result.kind = "keys"

\* the polling loop is running: a status check is in progress or the loop
\* sleeps between two of them
Polling == pc \in {"fetching", "retrySleep", "pollSleep"} /\ call = "check"
SpinnerSucceeded == "succeed: Authentication successful!"
SpinnerFailures == {"fail: Authentication failed", "fail: Authentication timed out after 5 minutes"}

\* C33: the spinner is started when polling starts and runs while the loop
\* polls; once the loop is left it has been settled exactly once, with
\* succeed when the confirmation was received (and then the attempt went on
\* to get_orgs) and with fail otherwise, never with both
C33_SpinnerSettledOnce ==
  /\ (spinner = <<>>) <=> (pc \in {"idle", "opening"} \/ (pc = "done" /\ lastAwait = Settled("openUrl", "rejected")))
  /\ spinner # <<>> =>
       /\ spinner[1] = "start"
       /\ Len(spinner) <= 2
       /\ Polling <=> Len(spinner) = 1
       /\ Len(spinner) = 2 =>
            /\ spinner[2] \in SpinnerFailures \cup {SpinnerSucceeded}
            /\ spinner[2] = SpinnerSucceeded <=> authenticated
            /\ spinner[2] \in SpinnerFailures => (pc = "done" /\ result = Null /\ posts = <<>>)
  /\ authenticated => sawConfirm
  /\ ConfirmationArrived => spinner = <<"start", SpinnerSucceeded>>
  /\ lastResp.call \in {"orgs", "keys"} => spinner = <<"start", SpinnerSucceeded>>
  /\ (lastResp.call \notin {"orgs", "keys"} /\ ~ConfirmationArrived) => ~authenticated
C33_Witness ==
  /\ pc = "done"
  /\ sawConfirm
  /\ ~authenticated
  /\ lastResp.call = "check"
  /\ spinner = <<"start", "fail: Authentication failed">>

\* C34: the organisation named in the "Using organization" notice is an
\* organisation of the get_orgs response whose id is the org_id of every
\* get_keys request of the attempt
C34_NoticeNamesRequestedAccount ==
  notice # Absent =>
    /\ KeysPosts # {}
    /\ \A k \in KeysPosts :
         \E n \in DOMAIN orgsData :
           /\ toString(orgsData[n].id) = posts[k].form.org_id
           /\ orgsData[n].name = notice

RailsYml == ymlPath(join(ProjectDir, "config"))
RailsWizardYml == wizardYmlPath(join(ProjectDir, "config"))

\* C35: an existing config/scout_apm.yml keeps its content unless the user
\* answered 'overwrite'; after 'cancel' nothing was written, after 'new'
\* only scout_apm.wizard.yml was; nothing was written either when the path
\* did not pass validation or when the user declined to continue
C35_ExistingConfigKeptUnlessOverwrite ==
  /\ (rails.files0[RailsYml] # NoContent /\ rails.files[RailsYml] # rails.files0[RailsYml]) => rails.action = "overwrite"
  /\ rails.action = "cancel" => (rails.writes = <<>> /\ rails.files = rails.files0)
  /\ rails.action = "new" => (\A n \in DOMAIN rails.writes : rails.writes[n] = RailsWizardYml) /\ rails.files[RailsYml] = rails.files0[RailsYml]
  /\ (rails.projectPath # NoPath /\ ~validateProjectPath(rails, rails.projectPath).valid) =>
       (rails.pc = "returned" /\ rails.writes = <<>> /\ rails.made = <<>> /\ rails.files = rails.files0)
  /\ rails.proceed = "false" => (rails.pc = "returned" /\ rails.writes = <<>> /\ rails.made = <<>> /\ rails.files = rails.files0)

\* the claude mcp add command was handed to execAsync
CommandExecuted == \E n \in DOMAIN wizard.handed : wizard.handed[n].to = "claude-code"

\* C36: the claude mcp add command is executed only when 'Do you want to run
\* this now?' was answered yes, never when it was answered no, and when the
\* command fails setup still returns
C36_CommandRunsOnlyOnYes ==
  wizard.pc # "none" =>
    /\ CommandExecuted => wizard.shouldRun = "true"
    /\ wizard.shouldRun = "false" => (~CommandExecuted /\ wizard.pc = "returned" /\ wizard.exec = Absent)
    /\ wizard.exec = "rejected" => wizard.pc = "returned"
    /\ wizard.pc = "exec" => CommandExecuted

============================================================================
